---- MODULE Spec2Model ----
(***************************************************************************)
(* A model of larender's LaTeX front end: the Lexer (src/src/lexer.ts) and *)
(* the stack machine parseLatex with its ParseContext (src/src/parser.ts). *)
(* One behaviour is one call parseLatex(input): Init is the state after    *)
(* `new Lexer(latex)`, createDocumentNode() and `new ParseContext(root)`,  *)
(* and every action is one iteration of the while loop, i.e. the handling  *)
(* of one lexeme including the arity check that closes the iteration.      *)
(* SessionSpec strings several calls together, RenderSpec creates          *)
(* LatexRenderers (src/src/ast.ts), and Part000_Spec is the parser without *)
(* environments of src/unnamed/part_000.                                   *)
(***************************************************************************)
EXTENDS Integers, Sequences, FiniteSets, TLC

VARIABLES
  input,             \* Lexer.input, a sequence of one-character strings
  index,             \* Lexer.index, the 0-based cursor
  token,             \* Lexer.token, the text of the current lexeme
  tokenType,         \* Lexer.tokenType, the kind of the current lexeme
  nodes,             \* the heap of LatexNode objects, node id = position
  stateStacks,       \* ParseContext.stateStacks, bottom first
  environmentStacks, \* ParseContext.environmentStacks, bottom first
  status,            \* "parsing" | "returned" | "error" | "fault"
  error,             \* the message of the Error thrown, "" if none
  results,           \* the outcomes of the calls of parseLatex made before
  optionObjects,     \* the RenderOptions objects; the first one is the
                     \* module-level DefaultRenderOptions of ast.ts
  renderers          \* the LatexRenderer objects created so far

\* what the renderer works on; parseLatex never touches it
renderVars == <<optionObjects, renderers>>

vars == <<input, index, token, tokenType, nodes, stateStacks,
          environmentStacks, status, error, results, renderVars>>

----------------------------------------------------------------------------
(* TokenType: the string values of the enum.                               *)

Unknown == "Unknown"
Number == "Number"
Alphabet == "Alphabet"
Subscript == "_"
Superscript == "^"
SquareRoot == "\\sqrt"
Dfrac == "\\dfrac"
LParen == "("
RParen == ")"
LBracket == "["
RBracket == "]"
LBrace == "{"
RBrace == "}"
\* Members of the enum the parser and lexer use that the enum of ast.ts as
\* shipped under src/ does not list.
Begin == "\\begin"
End == "\\end"
DoubleBackslash == "\\\\"
Newline == "Newline"
Paragraph == "Paragraph"
Character == "Character"

(* simpleCharMap: single characters that are a lexeme of their own.        *)
simpleCharMap ==
  [c \in {"+", "-", "%", "=", "(", ")", "{", "}", "[", "]", "^", "_",
          ".", ",", ":", ";", ">", "<", "@"} |->
     IF c = "%" THEN "\\%" ELSE c]

Letters ==
  {"a", "b", "c", "d", "e", "f", "g", "h", "i", "j", "k", "l", "m",
   "n", "o", "p", "q", "r", "s", "t", "u", "v", "w", "x", "y", "z",
   "A", "B", "C", "D", "E", "F", "G", "H", "I", "J", "K", "L", "M",
   "N", "O", "P", "Q", "R", "S", "T", "U", "V", "W", "X", "Y", "Z"}

Digits == {"0", "1", "2", "3", "4", "5", "6", "7", "8", "9"}

\* input[i] of the source, i 0-based; "" stands for undefined
CharAt(inp, i) == IF i >= 0 /\ i < Len(inp) THEN inp[i + 1] ELSE ""

\* the 0-based position of the first character at or after i not in class
RECURSIVE ScanWhile(_, _, _)
\* ScanWhile stopping after one character, as the lexer did before runs
\* were read whole
ScanWhile_OneCharacter(inp, i, class) == i + 1

ScanWhile(inp, i, class) ==
  IF i < Len(inp) /\ CharAt(inp, i) \in class
    THEN ScanWhile(inp, i + 1, class)
    ELSE i

\* the characters inp[from .. to-1] (0-based) joined into one string
RECURSIVE Slice(_, _, _)
Slice(inp, from, to) ==
  IF from >= to THEN "" ELSE CharAt(inp, from) \o Slice(inp, from + 1, to)

getTokenTypeFromCommand(command) == command

hasMoreTokens(inp, idx) == idx < Len(inp)

(* Lexer.nextToken: the lexer fields after the call, from the fields       *)
(* before it.  `tt` is the tokenType left by the previous call: the loop   *)
(* can run off the end of the input without assigning it.                  *)
RECURSIVE nextTokenLoop(_, _, _)
nextTokenLoop(inp, idx, tt) ==
  IF ~(idx < Len(inp))
    THEN [index |-> idx, token |-> "", tokenType |-> tt]
    ELSE
      LET char == CharAt(inp, idx) IN
      IF char = " " THEN nextTokenLoop(inp, idx + 1, tt)
      ELSE IF char \in DOMAIN simpleCharMap
        THEN [index |-> idx + 1, token |-> char,
              tokenType |-> simpleCharMap[char]]
      ELSE IF char = "\n"
        THEN IF CharAt(inp, idx + 1) = "\n"
               THEN [index |-> idx + 2, token |-> "\n\n",
                     tokenType |-> Paragraph]
               ELSE nextTokenLoop(inp, idx + 1, tt)
      ELSE IF char = "\\"
        THEN IF CharAt(inp, idx + 1) = "\\"
               THEN [index |-> idx + 2, token |-> "\\\\",
                     tokenType |-> DoubleBackslash]
               ELSE LET j == ScanWhile(inp, idx + 1, Letters)
                        t == char \o Slice(inp, idx + 1, j)
                    IN  [index |-> j, token |-> t,
                         tokenType |-> getTokenTypeFromCommand(t)]
      ELSE IF char \in Digits
        THEN LET j == ScanWhile(inp, idx, Digits)
             IN  [index |-> j, token |-> Slice(inp, idx, j),
                  tokenType |-> Number]
      ELSE IF char \in Letters
        THEN LET j == ScanWhile(inp, idx, Letters)
             IN  [index |-> j, token |-> Slice(inp, idx, j),
                  tokenType |-> Alphabet]
      ELSE [index |-> idx + 1, token |-> char, tokenType |-> Character]

\* nextToken reading the lexeme without consuming it
nextToken_Peek(inp, idx, tt) ==
  [nextTokenLoop(inp, idx, tt) EXCEPT !.index = idx]

\* a call: the arguments are evaluated once, then the loop runs on them
nextToken(inp, idx, tt) ==
  CHOOSE lx \in {nextTokenLoop(inp, i, t) : i \in {idx}, t \in {tt}} : TRUE

currentToken(lx) == [token |-> lx.token, tokenType |-> lx.tokenType]

----------------------------------------------------------------------------
(* The tree.  A LatexNode is a record in the heap `nodes`; children hold   *)
(* node ids, subscript/superscript hold a node id or 0 for undefined.      *)

NoToken == [token |-> "", tokenType |-> "undefined"]

NodeType ==
  [Document |-> "Document", Environment |-> "Environment",
   Paragraph |-> "Paragraph", Line |-> "Line", Plain |-> "Plain",
   PGroup |-> "Parenthesis", BGroup |-> "Bracket", CBGroup |-> "CurlyBrace"]

MkNode(nodeType, children, tok) ==
  [nodeType |-> nodeType, token |-> tok, children |-> children,
   subscript |-> 0, superscript |-> 0]

\* A context value: the heap and the two stacks of ParseContext.
Ctx(ns, ss, es) == [nodes |-> ns, stateStacks |-> ss, environmentStacks |-> es]

\* the id the next created node gets
NewId(c) == Len(c.nodes) + 1

\* createNode(nodeType, children, token): the node joins the heap
createNode(c, nodeType, children, tok) ==
  [c EXCEPT !.nodes = Append(@, MkNode(nodeType, children, tok))]

createPlainNode(c, tok) == createNode(c, NodeType.Plain, <<>>, tok)

\* createEnvironmentNode(envToken): Environment > Paragraph > Line; the
\* Environment is the node created last.
createEnvironmentNode(c, envToken) ==
  LET line == NewId(c)
      c1 == createNode(c, NodeType.Line, <<>>, NoToken)
      c2 == createNode(c1, NodeType.Paragraph, <<line>>, NoToken)
  IN  createNode(c2, NodeType.Environment, <<line + 1>>, envToken)

DocumentToken == [token |-> "document", tokenType |-> Alphabet]

\* createDocumentNode(): Document > Environment(document) > Paragraph > Line
createDocumentNode ==
  <<MkNode(NodeType.Document, <<2>>, NoToken),
    MkNode(NodeType.Environment, <<3>>, DocumentToken),
    MkNode(NodeType.Paragraph, <<4>>, NoToken),
    MkNode(NodeType.Line, <<>>, NoToken)>>

rootNode == 1

Last(s) == s[Len(s)]
Front(s) == SubSeq(s, 1, Len(s) - 1)

Null == -1

ParseState(node, numOfParams) == [node |-> node, numOfParams |-> numOfParams]

\* new ParseContext(rootNode)
NewParseContext(ns) ==
  LET env == ns[rootNode].children[1]
      ln == ns[ns[env].children[1]].children[1]
  IN  Ctx(ns, <<ParseState(ln, Null)>>, <<env>>)

top(c) == Last(c.stateStacks)
environmentNode(c) == Last(c.environmentStacks)
paragraphNode(c) == Last(c.nodes[environmentNode(c)].children)
lineNode(c) == Last(c.nodes[paragraphNode(c)].children)

pushState(c, node, numOfParams) ==
  [c EXCEPT !.stateStacks = Append(@, ParseState(node, numOfParams))]

\* Array.prototype.pop on an empty array leaves it empty
popState(c) ==
  [c EXCEPT !.stateStacks = IF @ = <<>> THEN <<>> ELSE Front(@)]

PushChild(c, parent, child) ==
  [c EXCEPT !.nodes[parent].children = Append(@, child)]

\* addChild appending to the innermost open environment instead of the
\* node of the top frame
addChild_ToEnvironment(c, node) == PushChild(c, environmentNode(c), node)

addChild(c, node) == PushChild(c, top(c).node, node)

\* createNewLine appending the Line to the last Paragraph of the document
\* environment instead of the innermost open one
createNewLine_InDocument(c) ==
  LET node == NewId(c)
      c1 == createNode(c, NodeType.Line, <<>>, NoToken)
      c2 == PushChild(c1, Last(c.nodes[c.nodes[rootNode].children[1]].children),
                      node)
  IN  [c2 EXCEPT !.stateStacks = <<ParseState(node, Null)>>]

\* createNewLine cutting the scope stack down to its old bottom frame
\* instead of the frame of the new Line
createNewLine_KeepsBottom(c) ==
  LET node == NewId(c)
      c1 == createNode(c, NodeType.Line, <<>>, NoToken)
      c2 == PushChild(c1, paragraphNode(c), node)
  IN  [c2 EXCEPT !.stateStacks = <<c.stateStacks[1]>>]

createNewLine(c) ==
  LET node == NewId(c)
      c1 == createNode(c, NodeType.Line, <<>>, NoToken)
      c2 == PushChild(c1, paragraphNode(c), node)
  IN  [c2 EXCEPT !.stateStacks = <<ParseState(node, Null)>>]

\* createNewParagraph pushing the frame of the new Line on the scope stack
\* instead of replacing the stack by it
createNewParagraph_PushesFrame(c) ==
  LET line == NewId(c)
      c1 == createNode(c, NodeType.Line, <<>>, NoToken)
      c2 == createNode(c1, NodeType.Paragraph, <<line>>, NoToken)
      c3 == PushChild(c2, environmentNode(c), line + 1)
  IN  pushState(c3, line, Null)

createNewParagraph(c) ==
  LET line == NewId(c)
      c1 == createNode(c, NodeType.Line, <<>>, NoToken)
      c2 == createNode(c1, NodeType.Paragraph, <<line>>, NoToken)
      c3 == PushChild(c2, environmentNode(c), line + 1)
  IN  [c3 EXCEPT !.stateStacks = <<ParseState(line, Null)>>]

\* pushEnvironment appending the environment to the current Line instead of
\* the node of the top frame
pushEnvironment_UnderLine(c, node) ==
  LET c1 == PushChild(c, lineNode(c), node)
      c2 == [c1 EXCEPT !.environmentStacks = Append(@, node)]
      ln == c2.nodes[c2.nodes[node].children[1]].children[1]
  IN  pushState(c2, ln, Null)

\* pushEnvironment without line 51: the environment is pushed on both
\* stacks but never appended to the tree
pushEnvironment_Detached(c, node) ==
  LET c1 == [c EXCEPT !.environmentStacks = Append(@, node)]
      ln == c1.nodes[c1.nodes[environmentNode(c1)].children[1]].children[1]
  IN  pushState(c1, ln, Null)

pushEnvironment(c, node) ==
  LET c1 == [c EXCEPT !.environmentStacks = Append(@, node)]
      c2 == PushChild(c1, top(c1).node, node)
      ln == c2.nodes[c2.nodes[environmentNode(c2)].children[1]].children[1]
  IN  pushState(c2, ln, Null)

popEnvironment(c) ==
  popState([c EXCEPT !.environmentStacks =
                       IF @ = <<>> THEN <<>> ELSE Front(@)])

\* the arity check left out
AutoPop_Never(c) == c

\* the arity check that ends every iteration of the loop (lines 229-234)
AutoPop(c) ==
  IF c.stateStacks # <<>>
       /\ top(c).numOfParams = Len(c.nodes[top(c).node].children)
    THEN popState(c)
    ELSE c

----------------------------------------------------------------------------
(* The inputs.  An input is a concatenation of pieces; the lexer reads it  *)
(* character by character, so adjacent pieces merge as the code merges     *)
(* them ("x" "x" is one Alphabet lexeme, two backslashes a line break).    *)

MaxAny == 2
MaxDelim == 4
MaxScript == 5
MaxArity == 4
MaxEnv == 5
MaxHeader == 4
MaxNest == 3
MaxBreak == 4

\* every kind of piece, for short inputs
AnyPieces ==
  { <<"x">>, <<"2">>, <<"^">>, <<"_">>, <<"(">>, <<")">>, <<"[">>, <<"]">>,
    <<"{">>, <<"}">>, <<" ">>, <<"\n">>, <<"\\">>,
    <<"\\", "s", "q", "r", "t">>, <<"\\", "d", "f", "r", "a", "c">>,
    <<"\\", "b", "e", "g", "i", "n">>, <<"\\", "e", "n", "d">>,
    <<"\\", "b", "e", "g", "i", "n", "{", "x", "}">>,
    <<"\\", "e", "n", "d", "{", "x", "}">> }

\* delimiters only
DelimPieces == { <<"(">>, <<")">>, <<"[">>, <<"]">>, <<"{">>, <<"}">> }

\* bases, script markers and braces
ScriptPieces == { <<"x">>, <<"2">>, <<"^">>, <<"_">>, <<"{">>, <<"}">> }

\* fixed-arity commands and their arguments
ArityPieces ==
  { <<"x">>, <<"2">>, <<"{">>, <<"}">>,
    <<"\\", "s", "q", "r", "t">>, <<"\\", "d", "f", "r", "a", "c">> }

\* environments, line breaks and what may follow them
EnvPieces ==
  { <<"x">>, <<"\\", "\\">>,
    <<"\\", "b", "e", "g", "i", "n", "{", "x", "}">>,
    <<"\\", "e", "n", "d", "{", "x", "}">> }

\* the lexemes an environment header is made of, loose
HeaderPieces ==
  { <<"x">>, <<"2">>, <<"{">>, <<"}">>,
    <<"\\", "b", "e", "g", "i", "n">>, <<"\\", "e", "n", "d">> }

\* environments around groups, breaks and a closing tag of the document
NestPieces ==
  { <<"x">>, <<"(">>, <<")">>, <<"\\", "\\">>, <<"\n", "\n">>,
    <<"\\", "b", "e", "g", "i", "n", "{", "x", "}">>,
    <<"\\", "e", "n", "d", "{", "x", "}">>,
    <<"\\", "e", "n", "d", "{", "d", "o", "c", "u", "m", "e", "n", "t", "}">> }

\* line ends, blank lines, line breaks and spaces around a letter
BreakPieces == { <<"x">>, <<" ">>, <<"\n">>, <<"\\", "\\">> }

\* all concatenations of at most n pieces of P
RECURSIVE Concats(_, _)
Concats(P, n) ==
  IF n = 0 THEN {<<>>}
  ELSE LET S == Concats(P, n - 1) IN S \cup {s \o p : s \in S, p \in P}

Inputs ==
  Concats(AnyPieces, MaxAny) \cup Concats(DelimPieces, MaxDelim)
    \cup Concats(ScriptPieces, MaxScript) \cup Concats(ArityPieces, MaxArity)
    \cup Concats(EnvPieces, MaxEnv) \cup Concats(HeaderPieces, MaxHeader)
    \cup Concats(NestPieces, MaxNest) \cup Concats(BreakPieces, MaxBreak)

(* The renderer's options (ast.ts).  A RenderOptions object is a record in *)
(* the heap `optionObjects`; a Partial<RenderOptions> is a function from   *)
(* some of the option names to values.  Of the ten options the five that   *)
(* are numbers, booleans or colours are kept; Object.assign treats the     *)
(* font families and the ratios alike.                                     *)

\* the object literal of ast.ts 290-301
DefaultRenderOptions ==
  [fontSize |-> 48, width |-> 600, height |-> 400, fillBackground |-> TRUE,
   backgroundColor |-> "white"]

\* the position of the DefaultRenderOptions object in optionObjects
DefaultsId == 1

\* Object.assign(target, source): every property of source is written to
\* target
Assign(target, source) ==
  [k \in DOMAIN target |-> IF k \in DOMAIN source THEN source[k] ELSE target[k]]

\* the state before anything is rendered
RenderInit ==
  /\ optionObjects = <<DefaultRenderOptions>>
  /\ renderers = <<>>

----------------------------------------------------------------------------
(* parseLatex                                                              *)

Init ==
  /\ input \in Inputs
  /\ index = 0
  /\ token = ""
  /\ tokenType = Unknown
  /\ nodes = createDocumentNode
  /\ stateStacks = NewParseContext(createDocumentNode).stateStacks
  /\ environmentStacks = NewParseContext(createDocumentNode).environmentStacks
  /\ status = "parsing"
  /\ error = ""
  /\ results = <<>>
  /\ RenderInit

context == Ctx(nodes, stateStacks, environmentStacks)

\* the lexer after the nextToken() of line 102
Cur == nextToken(input, index, tokenType)

\* the loop is about to run its body on a lexeme of kind tt, with a top frame
Reads(tt) ==
  /\ status = "parsing"
  /\ hasMoreTokens(input, index)
  /\ stateStacks # <<>>
  /\ Cur.tokenType = tt

\* lastNode of line 104: the last child of the top frame's node, 0 if none
lastNode ==
  LET ch == nodes[top(context).node].children
  IN  IF ch = <<>> THEN 0 ELSE Last(ch)

Advance(lx) ==
  /\ index' = lx.index
  /\ token' = lx.token
  /\ tokenType' = lx.tokenType
  /\ UNCHANGED <<input, results, renderVars>>

\* the body completed: the arity check runs, the loop goes on
Continue(c) ==
  \E r \in {AutoPop(v) : v \in {c}} :
  /\ nodes' = r.nodes
  /\ stateStacks' = r.stateStacks
  /\ environmentStacks' = r.environmentStacks
  /\ UNCHANGED <<status, error>>

\* throw new Error(msg)
Throw(msg) ==
  /\ status' = "error"
  /\ error' = msg
  /\ UNCHANGED <<nodes, stateStacks, environmentStacks>>

\* an unguarded TypeError: a property of undefined is read
Fault(msg) ==
  /\ status' = "fault"
  /\ error' = msg
  /\ UNCHANGED <<nodes, stateStacks, environmentStacks>>

\* lines 104-105 with an empty scope stack: context.top is undefined
ReadTopOfEmptyStack ==
  /\ status = "parsing"
  /\ hasMoreTokens(input, index)
  /\ stateStacks = <<>>
  /\ Advance(Cur)
  /\ Fault("context.top is undefined")

\* Attach storing every marker in the subscript slot
Attach_AlwaysSubscript(slot) ==
  LET node == NewId(context)
      c1 == createPlainNode(context, currentToken(Cur))
      c2 == [c1 EXCEPT !.nodes[lastNode].subscript = node]
  IN  pushState(c2, node, 1)

\* Attach appending the marker to the children of the scope as well
Attach_AlsoAsChild(slot) ==
  LET node == NewId(context)
      c1 == createPlainNode(context, currentToken(Cur))
      c2 == [c1 EXCEPT !.nodes[lastNode][slot] = node]
  IN  pushState(addChild(c2, node), node, 1)

\* a marker node is created, stored in the slot of lastNode and pushed
Attach(slot) ==
  LET node == NewId(context)
      c1 == createPlainNode(context, currentToken(Cur))
      c2 == [c1 EXCEPT !.nodes[lastNode][slot] = node]
  IN  pushState(c2, node, 1)

ParseSubscript ==
  /\ Reads(Subscript)
  /\ Advance(Cur)
  /\ IF lastNode = 0
       THEN Throw("Subscript without previous node")
       ELSE Continue(Attach("subscript"))

\* ParseSuperscript without the guard on lastNode: the marker is pushed
\* although there is no node to hold it
ParseSuperscript_NoGuard ==
  /\ Reads(Superscript)
  /\ Advance(Cur)
  /\ IF lastNode = 0
       THEN Continue(pushState(createPlainNode(context, currentToken(Cur)),
                               NewId(context), 1))
       ELSE Continue(Attach("superscript"))

ParseSuperscript ==
  /\ Reads(Superscript)
  /\ Advance(Cur)
  /\ IF lastNode = 0
       THEN Throw("Superscript without previous node")
       ELSE Continue(Attach("superscript"))

\* the three lexemes read after \begin or \end, each from the lexer state
\* the previous call left
EnvLex1 == nextToken(input, Cur.index, Cur.tokenType)
EnvLex2 == nextToken(input, EnvLex1.index, EnvLex1.tokenType)
EnvLex3 == nextToken(input, EnvLex2.index, EnvLex2.tokenType)

\* the lexer state in which the environment header stops being read
EnvHeaderEnd ==
  IF EnvLex1.tokenType # LBrace THEN EnvLex1
  ELSE IF EnvLex2.tokenType # Alphabet THEN EnvLex2
  ELSE EnvLex3

\* EnvHeaderOk without the check of the closing brace (lines 136, 154)
EnvHeaderOk_NoClosingBrace ==
  /\ EnvLex1.tokenType = LBrace
  /\ EnvLex2.tokenType = Alphabet

EnvHeaderOk ==
  /\ EnvLex1.tokenType = LBrace
  /\ EnvLex2.tokenType = Alphabet
  /\ EnvLex3.tokenType = RBrace

ParseBegin ==
  /\ Reads(Begin)
  /\ Advance(EnvHeaderEnd)
  /\ IF ~EnvHeaderOk
       THEN Throw("\\begin command must have environment.")
       ELSE \E c1 \in {createEnvironmentNode(context, currentToken(EnvLex2))} :
              Continue(pushEnvironment(c1, NewId(context) + 2))

\* ParseEnd accepting the name of any open environment, not only the
\* innermost one
ParseEnd_AnyOpenName ==
  /\ Reads(End)
  /\ Advance(EnvHeaderEnd)
  /\ IF ~EnvHeaderOk
       THEN Throw("\\begin command must have environment.")
       ELSE IF environmentStacks = <<>>
         THEN Fault("context.environmentNode is undefined")
       ELSE IF \A i \in 1..Len(environmentStacks) :
                 EnvLex2.token # nodes[environmentStacks[i]].token.token
         THEN Throw("Mismatched environment")
       ELSE Continue(popEnvironment(context))

ParseEnd ==
  /\ Reads(End)
  /\ Advance(EnvHeaderEnd)
  /\ IF ~EnvHeaderOk
       THEN Throw("\\begin command must have environment.")
       ELSE IF environmentStacks = <<>>
         THEN Fault("context.environmentNode is undefined")
       ELSE IF EnvLex2.token # nodes[environmentNode(context)].token.token
         THEN Throw("Mismatched environment")
       ELSE Continue(popEnvironment(context))

\* an opening delimiter: a group node is appended and its frame pushed
OpenGroup(nodeType) ==
  LET node == NewId(context)
      c1 == createNode(context, nodeType, <<>>, currentToken(Cur))
  IN  pushState(addChild(c1, node), node, Null)

\* a closing delimiter matches when the top node carries the opener's token
Closes(opener) == nodes[top(context).node].token.tokenType = opener

ParseLParen ==
  /\ Reads(LParen)
  /\ Advance(Cur)
  /\ Continue(OpenGroup(NodeType.PGroup))

ParseRParen ==
  /\ Reads(RParen)
  /\ Advance(Cur)
  /\ IF ~Closes(LParen)
       THEN Throw("Mismatched Parenthesis")
       ELSE Continue(popState(context))

\* ParseLBracket building the node of a parenthesis group
ParseLBracket_AsParen ==
  /\ Reads(LBracket)
  /\ Advance(Cur)
  /\ Continue(OpenGroup(NodeType.PGroup))

ParseLBracket ==
  /\ Reads(LBracket)
  /\ Advance(Cur)
  /\ Continue(OpenGroup(NodeType.BGroup))

\* ParseRBracket with the check weakened to "the top node is some group"
ParseRBracket_AnyGroup ==
  /\ Reads(RBracket)
  /\ Advance(Cur)
  /\ IF ~(Closes(LParen) \/ Closes(LBracket) \/ Closes(LBrace))
       THEN Throw("Mismatched Bracket")
       ELSE Continue(popState(context))

ParseRBracket ==
  /\ Reads(RBracket)
  /\ Advance(Cur)
  /\ IF ~Closes(LBracket)
       THEN Throw("Mismatched Bracket")
       ELSE Continue(popState(context))

ParseLBrace ==
  /\ Reads(LBrace)
  /\ Advance(Cur)
  /\ Continue(OpenGroup(NodeType.CBGroup))

ParseRBrace ==
  /\ Reads(RBrace)
  /\ Advance(Cur)
  /\ IF ~Closes(LBrace)
       THEN Throw("Mismatched Brace")
       ELSE Continue(popState(context))

\* a fixed-arity command: a Plain node is appended and pushed with its arity
Command(numOfParams) ==
  LET node == NewId(context)
      c1 == createPlainNode(context, currentToken(Cur))
  IN  pushState(addChild(c1, node), node, numOfParams)

ParseSquareRoot ==
  /\ Reads(SquareRoot)
  /\ Advance(Cur)
  /\ Continue(Command(1))

ParseDfrac ==
  /\ Reads(Dfrac)
  /\ Advance(Cur)
  /\ Continue(Command(2))

\* DoubleBackslash and Newline share one case; the lexer never yields a
\* lexeme of kind Newline for a line end
ParseNewLine ==
  /\ \/ Reads(DoubleBackslash)
     \/ Reads(Newline)
  /\ Advance(Cur)
  /\ IF environmentStacks = <<>>
       THEN Fault("context.environmentNode is undefined")
       ELSE Continue(createNewLine(context))

ParseParagraph ==
  /\ Reads(Paragraph)
  /\ Advance(Cur)
  /\ IF environmentStacks = <<>>
       THEN Fault("context.environmentNode is undefined")
       ELSE Continue(createNewParagraph(context))

Dispatched ==
  {Subscript, Superscript, Begin, End, LParen, RParen, LBracket, RBracket,
   LBrace, RBrace, SquareRoot, Dfrac, DoubleBackslash, Newline, Paragraph}

\* the default case also pushing a frame for the node it appends
ParseDefault_PushesFrame ==
  /\ status = "parsing"
  /\ hasMoreTokens(input, index)
  /\ stateStacks # <<>>
  /\ Cur.tokenType \notin Dispatched
  /\ Advance(Cur)
  /\ LET node == NewId(context)
         c1 == createPlainNode(context, currentToken(Cur))
     IN  Continue(pushState(addChild(c1, node), node, Null))

ParseDefault ==
  /\ status = "parsing"
  /\ hasMoreTokens(input, index)
  /\ stateStacks # <<>>
  /\ Cur.tokenType \notin Dispatched
  /\ Advance(Cur)
  /\ LET node == NewId(context)
         c1 == createPlainNode(context, currentToken(Cur))
     IN  Continue(addChild(c1, node))

\* Return refusing to return while more than the bottom frame is on the
\* scope stack
Return_FailsWhenOpen ==
  /\ status = "parsing"
  /\ ~hasMoreTokens(input, index)
  /\ IF Len(stateStacks) > 1
       THEN status' = "error" /\ error' = "Unclosed group"
       ELSE status' = "returned" /\ error' = error
  /\ UNCHANGED <<input, index, token, tokenType, nodes, stateStacks,
                 environmentStacks, results, renderVars>>

\* the loop condition fails: return rootNode
Return ==
  /\ status = "parsing"
  /\ ~hasMoreTokens(input, index)
  /\ status' = "returned"
  /\ UNCHANGED <<input, index, token, tokenType, nodes, stateStacks,
                 environmentStacks, error, results, renderVars>>

Next ==
  \/ ReadTopOfEmptyStack
  \/ ParseSubscript
  \/ ParseSuperscript
  \/ ParseBegin
  \/ ParseEnd
  \/ ParseLParen
  \/ ParseRParen
  \/ ParseLBracket
  \/ ParseRBracket
  \/ ParseLBrace
  \/ ParseRBrace
  \/ ParseSquareRoot
  \/ ParseDfrac
  \/ ParseNewLine
  \/ ParseParagraph
  \/ ParseDefault
  \/ Return

Spec == Init /\ [][Next]_vars

----------------------------------------------------------------------------
(* Notions the properties share.                                           *)

NodeIds == 1..Len(nodes)

ChildCount(n) == Len(nodes[n].children)

\* a frame with a finite numOfParams whose node has that many children
Full(frame) ==
  frame.numOfParams # Null /\ frame.numOfParams = ChildCount(frame.node)

IsCommand(n, tt) ==
  nodes[n].nodeType = NodeType.Plain /\ nodes[n].token.tokenType = tt

\* n is the marker held by a subscript or superscript slot
IsMarkerNode(n) ==
  \E b \in NodeIds : nodes[b].subscript = n \/ nodes[b].superscript = n

----------------------------------------------------------------------------
(* C1: after parseLatex has processed a lexeme, the frame the arity check  *)
(* looks at, the top of the scope stack, is not a frame with a finite      *)
(* numOfParams whose node has exactly that many children: such a frame is  *)
(* popped in the step in which it fills, also when it fills because a      *)
(* nested arity frame filled and was popped in that same step.             *)
C1_NoFullFrameOnTop ==
  (status = "parsing" /\ stateStacks # <<>>) => ~Full(top(context))

(* C2: in every tree returned, a \sqrt node has at most 1 child, a \dfrac  *)
(* node at most 2 and a _ / ^ marker node at most 1, whatever lexemes      *)
(* follow the command and also when an argument is a fixed-arity command.  *)
C2_ArityBoundsChildren ==
  status = "returned" =>
    \A n \in NodeIds :
      /\ IsCommand(n, SquareRoot) => ChildCount(n) <= 1
      /\ IsCommand(n, Dfrac) => ChildCount(n) <= 2
      /\ IsMarkerNode(n) => ChildCount(n) <= 1

(* C3: from the construction of the ParseContext until the tokenizer is    *)
(* exhausted, the scope stack holds at least one frame.                    *)
C3_ScopeStackNeverEmpty ==
  (status = "parsing" /\ hasMoreTokens(input, index)) => stateStacks # <<>>

(* The lexemes parseLatex's loop reads from an input, from the lexer state *)
(* (idx, tt) on: while hasMoreTokens() { nextToken(); currentToken() }.    *)
RECURSIVE LexemesFrom(_, _, _)
LexemesFrom(inp, idx, tt) ==
  IF ~hasMoreTokens(inp, idx) THEN <<>>
  ELSE LET lx == nextToken(inp, idx, tt)
       IN  <<currentToken(lx)>> \o LexemesFrom(inp, lx.index, lx.tokenType)

Lexemes(inp) == LexemesFrom(inp, 0, Unknown)

\* the cursor positions between the lexemes of inp, its two ends included
RECURSIVE BoundariesFrom(_, _, _)
BoundariesFrom(inp, idx, tt) ==
  IF ~hasMoreTokens(inp, idx) THEN {idx}
  ELSE LET lx == nextToken(inp, idx, tt)
       IN  {idx} \cup BoundariesFrom(inp, lx.index, lx.tokenType)

Boundaries(inp) == BoundariesFrom(inp, 0, Unknown)

InsertAt(inp, p, c) ==
  SubSeq(inp, 1, p) \o <<c>> \o SubSeq(inp, p + 1, Len(inp))

(* C4: spaces and lone newlines never produce a lexeme: the lexemes read   *)
(* from the input are the same when a space or a newline is inserted       *)
(* between two lexemes or appended at the end of the input.                *)
C4_WhitespaceYieldsNoLexeme ==
  \A p \in Boundaries(input) : \A c \in {" ", "\n"} :
    Lexemes(InsertAt(input, p, c)) = Lexemes(input)

----------------------------------------------------------------------------
(* Delimiters.                                                             *)

Closers == {RParen, RBracket, RBrace}

GroupOfCloser(tt) ==
  CASE tt = RParen -> NodeType.PGroup
    [] tt = RBracket -> NodeType.BGroup
    [] tt = RBrace -> NodeType.CBGroup

MismatchOfCloser(tt) ==
  CASE tt = RParen -> "Mismatched Parenthesis"
    [] tt = RBracket -> "Mismatched Bracket"
    [] tt = RBrace -> "Mismatched Brace"

\* the loop is about to dispatch a closing delimiter with a frame on top
ReadsCloser ==
  /\ status = "parsing"
  /\ hasMoreTokens(input, index)
  /\ stateStacks # <<>>
  /\ Cur.tokenType \in Closers

\* the scope stack once its top frame is popped and the arity check has run
\* on the frame that is then on top
AfterClose ==
  LET rest == Front(stateStacks)
  IN  IF rest # <<>> /\ Full(Last(rest)) THEN Front(rest) ELSE rest

(* C5: a closing delimiter ), ] or } read with a frame on top of the scope *)
(* stack is accepted only when the node of that frame is the group opened  *)
(* by the same kind of delimiter, and then the frame of that group is      *)
(* popped (the arity check of the iteration then looks at the frame        *)
(* below); in every other such state (a group of another kind, an arity    *)
(* or marker frame, a bare Line) parseLatex throws the mismatch error and  *)
(* pops nothing.                                                           *)
C5_CloserNeedsMatchingGroup ==
  [][ReadsCloser =>
       IF nodes[top(context).node].nodeType = GroupOfCloser(Cur.tokenType)
         THEN /\ status' = "parsing"
              /\ stateStacks' = AfterClose
              /\ nodes' = nodes
         ELSE /\ status' = "error"
              /\ error' = MismatchOfCloser(Cur.tokenType)
              /\ stateStacks' = stateStacks]_vars

\* a ] has closed the bracket group opened inside another group
C5_Witness ==
  /\ status = "parsing"
  /\ tokenType = RBracket
  /\ Len(stateStacks) = 2
  /\ \E n \in NodeIds :
       /\ nodes[n].nodeType = NodeType.BGroup
       /\ \A i \in 1..Len(stateStacks) : stateStacks[i].node # n

Openers == {LParen, LBracket, LBrace}

CloserOfOpener(c) ==
  CASE c = LParen -> RParen
    [] c = LBracket -> RBracket
    [] c = LBrace -> RBrace

CloserOfGroup(nodeType) ==
  CASE nodeType = NodeType.PGroup -> RParen
    [] nodeType = NodeType.BGroup -> RBracket
    [] nodeType = NodeType.CBGroup -> RBrace

GroupTypes == {NodeType.PGroup, NodeType.BGroup, NodeType.CBGroup}

\* s[i..] holds delimiters only and closes, in order, the closers `open`
\* (innermost last) and every group it opens itself
RECURSIVE BalancedFrom(_, _, _)
BalancedFrom(s, i, open) ==
  IF i > Len(s) THEN open = <<>>
  ELSE IF s[i] \in Openers
    THEN BalancedFrom(s, i + 1, Append(open, CloserOfOpener(s[i])))
  ELSE IF s[i] \in Closers
    THEN open # <<>> /\ Last(open) = s[i] /\ BalancedFrom(s, i + 1, Front(open))
  ELSE FALSE

Balanced(s) == BalancedFrom(s, 1, <<>>)

\* the delimiters of the subtree of node n: a group node is written as the
\* text of its opener, its children in order, and the closer of its kind
RECURSIVE Flatten(_)
RECURSIVE FlattenAll(_)
Flatten(n) ==
  LET inner == FlattenAll(nodes[n].children)
  IN  IF nodes[n].nodeType \in GroupTypes
        THEN <<nodes[n].token.token>> \o inner
               \o <<CloserOfGroup(nodes[n].nodeType)>>
        ELSE inner

FlattenAll(ch) ==
  IF ch = <<>> THEN <<>> ELSE Flatten(Head(ch)) \o FlattenAll(Tail(ch))

(* C6: for an input made only of balanced (, ), [, ], {, } parseLatex      *)
(* never fails, and in the tree it returns the group nodes nest as the     *)
(* brackets do: flattening the tree reproduces the input.                  *)
C6_BalancedDelimitersRoundTrip ==
  Balanced(input) =>
    /\ status \notin {"error", "fault"}
    /\ status = "returned" => Flatten(rootNode) = input

\* a returned parse of a balanced input in which a group holds a group of
\* another kind
C6_Witness ==
  /\ status = "returned"
  /\ Balanced(input)
  /\ \E n, k \in NodeIds :
       /\ nodes[n].nodeType \in GroupTypes
       /\ nodes[k].nodeType \in GroupTypes \ {nodes[n].nodeType}
       /\ \E i \in 1..ChildCount(n) : nodes[n].children[i] = k

----------------------------------------------------------------------------
(* Subscript and superscript markers.                                      *)

Markers == {Subscript, Superscript}

DanglingOfMarker(tt) ==
  IF tt = Subscript THEN "Subscript without previous node"
                    ELSE "Superscript without previous node"

\* the loop is about to dispatch a marker and the top node has no children
ReadsMarkerWithoutSibling ==
  /\ status = "parsing"
  /\ hasMoreTokens(input, index)
  /\ stateStacks # <<>>
  /\ Cur.tokenType \in Markers
  /\ nodes[top(context).node].children = <<>>

(* C7: a _ or ^ marker processed while the node of the top scope frame has *)
(* no children makes parseLatex throw; no slot is set and no frame pushed. *)
C7_MarkerNeedsSibling ==
  [][ReadsMarkerWithoutSibling =>
       /\ status' = "error"
       /\ error' = DanglingOfMarker(Cur.tokenType)
       /\ nodes' = nodes
       /\ stateStacks' = stateStacks]_vars

\* a marker was rejected as the first argument of another marker
C7_Witness ==
  /\ status = "error"
  /\ error \in {DanglingOfMarker(Subscript), DanglingOfMarker(Superscript)}
  /\ tokenType \in Markers
  /\ IsMarkerNode(top(context).node)
  /\ ChildCount(top(context).node) = 0

\* the inputs b m a and b m { a } : a base, a marker, a one-lexeme argument
ScriptAtoms == {"x", "2"}
BareScript(b, m, a) == <<b, m, a>>
BracedScript(b, m, a) == <<b, m, "{", a, "}">>

\* the first Line of the document and its first child
firstLine == 4
BaseNode == nodes[firstLine].children[1]

SlotOf(n, m) == IF m = Subscript THEN nodes[n].subscript ELSE nodes[n].superscript

IsPlain(n, text) ==
  /\ nodes[n].nodeType = NodeType.Plain
  /\ nodes[n].token.token = text
  /\ nodes[n].children = <<>>

\* node n holds exactly one child, Plain(text)
HoldsPlain(n, text) ==
  ChildCount(n) = 1 /\ IsPlain(nodes[n].children[1], text)

\* node n holds exactly one child, a brace group holding exactly Plain(text)
HoldsBracedPlain(n, text) ==
  /\ ChildCount(n) = 1
  /\ nodes[nodes[n].children[1]].nodeType = NodeType.CBGroup
  /\ HoldsPlain(nodes[n].children[1], text)

\* the Line holds the base alone and the slot of marker m holds a marker
ScriptAttached(b, m) ==
  /\ ChildCount(firstLine) = 1
  /\ nodes[BaseNode].token.token = b
  /\ SlotOf(BaseNode, m) # 0
  /\ nodes[SlotOf(BaseNode, m)].token.token = m

(* C8, as claimed: for a base followed by ^ (or _) and a one-lexeme        *)
(* argument a, written bare (x^a) or braced (x^{a}), the slot of the base  *)
(* holds a marker whose single child is Plain(a).                          *)
C8_BareAndBracedIsomorphic ==
  status = "returned" =>
    \A b \in ScriptAtoms, m \in Markers, a \in ScriptAtoms :
      input \in {BareScript(b, m, a), BracedScript(b, m, a)} =>
        /\ ScriptAttached(b, m)
        /\ HoldsPlain(SlotOf(BaseNode, m), a)

(* C8, amended: written bare, the slot of the base holds a marker whose    *)
(* single child is Plain(a); written braced, it holds a marker whose       *)
(* single child is the brace group, whose single child is Plain(a).  In    *)
(* both forms the marker is in the slot of its kind, the other slot is     *)
(* unset and the marker's frame has been popped.                           *)
C8_BracedArgumentKeepsItsGroup ==
  status = "returned" =>
    \A b \in ScriptAtoms, m \in Markers, a \in ScriptAtoms :
      /\ input \in {BareScript(b, m, a), BracedScript(b, m, a)} =>
           /\ ScriptAttached(b, m)
           /\ \A o \in Markers \ {m} : SlotOf(BaseNode, o) = 0
           /\ stateStacks = <<ParseState(firstLine, Null)>>
      /\ input = BareScript(b, m, a) => HoldsPlain(SlotOf(BaseNode, m), a)
      /\ input = BracedScript(b, m, a) =>
           HoldsBracedPlain(SlotOf(BaseNode, m), a)

\* x^{a} has been parsed
C8_Witness ==
  /\ status = "returned"
  /\ \E b \in ScriptAtoms, a \in ScriptAtoms :
       /\ input = BracedScript(b, Superscript, a)
       /\ HoldsBracedPlain(nodes[BaseNode].superscript, a)

(* C9: once a node's subscript (resp. superscript) slot is set, no later   *)
(* lexeme of the parse replaces it with another marker node.               *)
C9_SlotsSetOnce ==
  [][\A n \in NodeIds :
       /\ nodes[n].subscript # 0 => nodes'[n].subscript = nodes[n].subscript
       /\ nodes[n].superscript # 0 =>
            nodes'[n].superscript = nodes[n].superscript]_vars

\* the inputs b m1 a1 m2 a2: a base with both scripts, in either order
BothScripts(b, m1, a1, m2, a2) == <<b, m1, a1, m2, a2>>

(* C10: a base followed by a subscript with one argument and a superscript *)
(* with one argument, in either order, gets both markers: both slots of    *)
(* the base are set, each marker has its one argument as its only child,   *)
(* and the enclosing children sequence holds the base alone.               *)
C10_BothScriptsOnSameBase ==
  status = "returned" =>
    \A b \in ScriptAtoms, a1 \in ScriptAtoms, a2 \in ScriptAtoms :
      \A m1 \in Markers : \A m2 \in Markers \ {m1} :
        input = BothScripts(b, m1, a1, m2, a2) =>
          /\ ScriptAttached(b, m1)
          /\ ScriptAttached(b, m2)
          /\ HoldsPlain(SlotOf(BaseNode, m1), a1)
          /\ HoldsPlain(SlotOf(BaseNode, m2), a2)

\* x^2_x has been parsed
C10_Witness ==
  /\ status = "returned"
  /\ input = BothScripts("x", Superscript, "2", Subscript, "x")
  /\ nodes[BaseNode].subscript # 0
  /\ nodes[BaseNode].superscript # 0

----------------------------------------------------------------------------
\* the lexemes that follow the \begin or \end the loop is about to read, up
\* to the end of the input
AfterTag == LexemesFrom(input, Cur.index, Cur.tokenType)

\* the next three lexemes are exactly {, a run of letters, }
WellFormedHeader ==
  /\ Len(AfterTag) >= 3
  /\ AfterTag[1].token = "{"
  /\ AfterTag[2].tokenType = Alphabet /\ AfterTag[2].token # ""
  /\ AfterTag[3].token = "}"

ReadsTag ==
  /\ status = "parsing"
  /\ hasMoreTokens(input, index)
  /\ Cur.tokenType \in {Begin, End}

HeaderError == "\\begin command must have environment."

(* C11: when \begin or \end is read and the next three lexemes are not     *)
(* exactly {, one Alphabet lexeme, } (also when the input ends before all  *)
(* three are read), parseLatex throws in that step and neither the         *)
(* environment stack nor the scope stack has changed; with a frame on the  *)
(* scope stack the error is the one of the header.                         *)
C11_MalformedHeaderThrows ==
  [][(ReadsTag /\ ~WellFormedHeader) =>
       /\ status' \in {"error", "fault"}
       /\ stateStacks # <<>> => (status' = "error" /\ error' = HeaderError)
       /\ stateStacks' = stateStacks
       /\ environmentStacks' = environmentStacks]_vars

\* \begin{x or \end{x with nothing behind the name: the third read ran off
\* the input (empty text, the kind of the name); the header error, both
\* stacks as they were before the tag
C11_Witness ==
  /\ status = "error"
  /\ error = HeaderError
  /\ ~hasMoreTokens(input, index)
  /\ tokenType = Alphabet /\ token = ""
  /\ Len(stateStacks) = 1 /\ Len(environmentStacks) = 1

----------------------------------------------------------------------------
\* the name carried by environment node e
EnvName(e) == nodes[e].token.token

\* the loop is about to read a well-formed \end{name} while an environment
\* is open
ReadsEndTag ==
  /\ Reads(End)
  /\ WellFormedHeader
  /\ environmentStacks # <<>>

(* C12: a well-formed \end{name} read while an environment is on top of    *)
(* the environment stack is accepted only when name is the name of that    *)
(* innermost environment, and then exactly one entry leaves the            *)
(* environment stack; with any other name the step throws 'Mismatched      *)
(* environment' and both stacks are unchanged.                             *)
C12_EndNeedsInnermostName ==
  [][ReadsEndTag =>
       IF AfterTag[2].token = EnvName(Last(environmentStacks))
         THEN /\ status' = "parsing"
              /\ environmentStacks' = Front(environmentStacks)
         ELSE /\ status' = "error"
              /\ error' = "Mismatched environment"
              /\ stateStacks' = stateStacks
              /\ environmentStacks' = environmentStacks]_vars

\* \end{document} inside \begin{x}: the name of an enclosing environment,
\* not of the innermost one, is refused and x stays open
C12_Witness ==
  /\ status = "error"
  /\ error = "Mismatched environment"
  /\ Len(environmentStacks) = 2
  /\ EnvName(Last(environmentStacks)) = "x"
  /\ EnvName(environmentStacks[1]) = "document"

----------------------------------------------------------------------------
\* node e of heap ns is an Environment called name that holds one Paragraph
\* holding one empty Line
FreshEnvironment(ns, e, name) ==
  /\ ns[e].nodeType = NodeType.Environment
  /\ ns[e].token.token = name
  /\ Len(ns[e].children) = 1
  /\ LET p == ns[e].children[1] IN
       /\ ns[p].nodeType = NodeType.Paragraph
       /\ Len(ns[p].children) = 1
       /\ ns[ns[p].children[1]].nodeType = NodeType.Line
       /\ ns[ns[p].children[1]].children = <<>>

\* the first Line of environment e in heap ns
FirstLineOf(ns, e) == ns[ns[e].children[1]].children[1]

(* C13: a well-formed \begin{name} read with a frame on top of the scope   *)
(* stack creates one Environment(name) holding one Paragraph with one      *)
(* Line, appends it as the last child of the node of the top frame,        *)
(* pushes it on the environment stack and pushes one frame without arity   *)
(* for its first Line; the frames that were on the scope stack stay below, *)
(* unchanged, and no other node that existed changes.                      *)
C13_BeginOpensEnvironment ==
  [][(Reads(Begin) /\ WellFormedHeader) =>
       \E e \in 1..Len(nodes') :
         /\ e \notin NodeIds
         /\ FreshEnvironment(nodes', e, AfterTag[2].token)
         /\ nodes'[top(context).node].children =
              Append(nodes[top(context).node].children, e)
         /\ \A n \in NodeIds \ {top(context).node} : nodes'[n] = nodes[n]
         /\ environmentStacks' = Append(environmentStacks, e)
         /\ stateStacks' =
              Append(stateStacks, ParseState(FirstLineOf(nodes', e), Null))
         /\ status' = "parsing"]_vars

\* (\begin{x} : the environment hangs under the open group, whose frame is
\* below the frame of the environment's first Line
C13_Witness ==
  /\ status = "parsing"
  /\ token = "}"
  /\ Len(environmentStacks) = 2
  /\ Len(stateStacks) = 3
  /\ nodes[stateStacks[2].node].nodeType = NodeType.PGroup
  /\ nodes[stateStacks[2].node].children = <<Last(environmentStacks)>>
  /\ Last(stateStacks) =
       ParseState(FirstLineOf(nodes, Last(environmentStacks)), Null)

----------------------------------------------------------------------------
Environments == {e \in NodeIds : nodes[e].nodeType = NodeType.Environment}

\* the loop is about to read a line break / a paragraph break
ReadsLineBreak == Reads(DoubleBackslash) \/ Reads(Newline)
ReadsParagraphBreak == Reads(Paragraph)

\* environment e keeps its Paragraphs and each of them keeps its Lines
SameLayout(e) ==
  /\ nodes'[e].children = nodes[e].children
  /\ \A i \in 1..Len(nodes[e].children) :
       nodes'[nodes[e].children[i]].children =
         nodes[nodes[e].children[i]].children

\* node n of the next heap is new and is an empty Line
NewLine(n) ==
  /\ n \in 1..Len(nodes') /\ n \notin NodeIds
  /\ nodes'[n].nodeType = NodeType.Line
  /\ nodes'[n].children = <<>>

\* environment e gets one more Line at the end of its last Paragraph
GetsLine(e) ==
  LET p == Last(nodes[e].children) IN
  /\ nodes'[e].children = nodes[e].children
  /\ \E l \in 1..Len(nodes') :
       NewLine(l) /\ nodes'[p].children = Append(nodes[p].children, l)
  /\ \A i \in 1..(Len(nodes[e].children) - 1) :
       nodes'[nodes[e].children[i]].children =
         nodes[nodes[e].children[i]].children

\* environment e gets one more Paragraph, holding one new Line, at its end
GetsParagraph(e) ==
  /\ \E p \in 1..Len(nodes') :
       /\ p \notin NodeIds
       /\ nodes'[p].nodeType = NodeType.Paragraph
       /\ nodes'[e].children = Append(nodes[e].children, p)
       /\ Len(nodes'[p].children) = 1 /\ NewLine(nodes'[p].children[1])
  /\ \A i \in 1..Len(nodes[e].children) :
       nodes'[nodes[e].children[i]].children =
         nodes[nodes[e].children[i]].children

(* C14: a line break or paragraph break read while a \begin{name} is open  *)
(* (the environment stack holds more than the document environment)        *)
(* creates its Line under the last Paragraph of the innermost open         *)
(* environment, resp. its Paragraph under that environment; every other    *)
(* environment, the enclosing ones included, keeps its Paragraphs and      *)
(* their Lines.                                                            *)
C14_BreaksGoToInnermostEnvironment ==
  [][((ReadsLineBreak \/ ReadsParagraphBreak) /\ Len(environmentStacks) >= 2)
       => /\ status' = "parsing"
          /\ IF ReadsParagraphBreak
               THEN GetsParagraph(Last(environmentStacks))
               ELSE GetsLine(Last(environmentStacks))
          /\ \A e \in Environments \ {Last(environmentStacks)} :
               SameLayout(e)]_vars

\* node l is a Line holding one Plain node of text t and nothing else
LineHolds(l, t) ==
  /\ nodes[l].nodeType = NodeType.Line
  /\ Len(nodes[l].children) = 1
  /\ nodes[nodes[l].children[1]].nodeType = NodeType.Plain
  /\ nodes[nodes[l].children[1]].token.token = t
  /\ nodes[nodes[l].children[1]].children = <<>>

\* \begin{x}x\\x\end{x} returned: the environment x, sole child of the
\* first Line of the document, has one Paragraph of two Lines holding x and
\* x; the document environment still has one Paragraph of one Line
C14_Witness ==
  /\ status = "returned"
  /\ input = <<"\\", "b", "e", "g", "i", "n", "{", "x", "}", "x", "\\", "\\",
               "x", "\\", "e", "n", "d", "{", "x", "}">>
  /\ nodes[nodes[rootNode].children[1]].children = <<3>>
  /\ nodes[3].children = <<firstLine>>
  /\ Len(nodes[firstLine].children) = 1
  /\ LET e == nodes[firstLine].children[1] IN
       /\ nodes[e].nodeType = NodeType.Environment /\ EnvName(e) = "x"
       /\ Len(nodes[e].children) = 1
       /\ Len(nodes[nodes[e].children[1]].children) = 2
       /\ LineHolds(nodes[nodes[e].children[1]].children[1], "x")
       /\ LineHolds(nodes[nodes[e].children[1]].children[2], "x")

----------------------------------------------------------------------------
\* the implicit document environment (line 27)
documentEnvironment == nodes[rootNode].children[1]

(* C15: in every state of a parse the environment stack is non-empty and   *)
(* its bottom entry is the implicit document environment: no \end, an      *)
(* \end{document} without a matching \begin included, removes it.          *)
C15_DocumentEnvironmentAtBottom ==
  /\ environmentStacks # <<>>
  /\ environmentStacks[1] = documentEnvironment

----------------------------------------------------------------------------
\* the frames of the scope stack whose node is a group opened by (, [ or {
GroupFrames ==
  {i \in 1..Len(stateStacks) : nodes[stateStacks[i].node].nodeType \in GroupTypes}

\* the tokenizer is exhausted and the loop has not been left yet
Exhausted == status = "parsing" /\ ~hasMoreTokens(input, index)

(* C16: parseLatex never returns a tree while a group opened by (, [ or {  *)
(* is still on the scope stack: an input like "(a" fails with a structural *)
(* error at the end of the input.                                          *)
C16_UnclosedGroupFails == status = "returned" => GroupFrames = {}

(* C16, amended: when the tokenizer is exhausted while a group opened by   *)
(* (, [ or { is still on the scope stack, parseLatex does not fail: it     *)
(* returns the root node, and the tree and both stacks are left as the     *)
(* last lexeme left them, the unclosed group node included.                *)
C16_UnclosedGroupIsReturned ==
  [][(Exhausted /\ GroupFrames # {}) =>
       /\ status' = "returned"
       /\ error' = error
       /\ nodes' = nodes
       /\ stateStacks' = stateStacks]_vars

\* "(x" returned: the tree holds the group ( with its child x, and the
\* frame of the group is still on the scope stack
C16_Witness ==
  /\ status = "returned"
  /\ input = <<"(", "x">>
  /\ Len(stateStacks) = 2
  /\ GroupFrames = {2}
  /\ nodes[firstLine].children = <<stateStacks[2].node>>
  /\ Len(nodes[stateStacks[2].node].children) = 1

----------------------------------------------------------------------------
\* What an input leaves open, read off its lexemes without the parser: a
\* stack of obligations, each a group waiting for its closer, a command
\* waiting for n more arguments, a script marker waiting for its argument
\* or an environment waiting for its \end.
OpenGroupOf(closer) == [kind |-> "group", closer |-> closer, n |-> 0, name |-> ""]
OpenArgs(n) == [kind |-> "args", closer |-> "", n |-> n, name |-> ""]
OpenMarker == [kind |-> "marker", closer |-> "", n |-> 1, name |-> ""]
OpenEnv(name) == [kind |-> "env", closer |-> "", n |-> 0, name |-> name]

\* the lexemes of inp that carry text: a read past the end of the input
\* carries none
TextLexemes(inp) == SelectSeq(Lexemes(inp), LAMBDA l : l.token # "")

\* one more item is complete under the obligations st: a marker has its
\* argument; a command has one argument more and, when that was its last,
\* is itself a complete item of the scope around it
RECURSIVE ItemDone(_)
ItemDone(st) ==
  IF st = <<>> THEN st
  ELSE IF Last(st).kind = "marker" THEN Front(st)
  ELSE IF Last(st).kind = "args"
    THEN IF Last(st).n = 1 THEN ItemDone(Front(st))
         ELSE Append(Front(st), OpenArgs(Last(st).n - 1))
  ELSE st

\* ls[i..] closes every obligation of st and everything it opens itself
RECURSIVE ClosedFrom(_, _, _)
ClosedFrom(ls, i, st) ==
  IF i > Len(ls) THEN st = <<>>
  ELSE LET tt == ls[i].tokenType
           header == /\ i + 3 <= Len(ls)
                     /\ ls[i + 1].tokenType = LBrace
                     /\ ls[i + 2].tokenType = Alphabet
                     /\ ls[i + 3].tokenType = RBrace
       IN
       IF tt \in Openers
         THEN ClosedFrom(ls, i + 1, Append(st, OpenGroupOf(CloserOfOpener(tt))))
       ELSE IF tt \in Closers
         THEN /\ st # <<>>
              /\ Last(st) = OpenGroupOf(tt)
              /\ ClosedFrom(ls, i + 1, ItemDone(Front(st)))
       ELSE IF tt = SquareRoot
         THEN ClosedFrom(ls, i + 1, Append(st, OpenArgs(1)))
       ELSE IF tt = Dfrac
         THEN ClosedFrom(ls, i + 1, Append(st, OpenArgs(2)))
       ELSE IF tt \in Markers
         THEN ClosedFrom(ls, i + 1, Append(st, OpenMarker))
       ELSE IF tt = Begin
         THEN /\ header
              /\ ClosedFrom(ls, i + 4, Append(st, OpenEnv(ls[i + 2].token)))
       ELSE IF tt = End
         THEN /\ header
              /\ st # <<>>
              /\ Last(st) = OpenEnv(ls[i + 2].token)
              /\ ClosedFrom(ls, i + 4, ItemDone(Front(st)))
       ELSE IF tt \in {DoubleBackslash, Newline, Paragraph}
         THEN /\ st = <<>> \/ Last(st).kind = "env"
              /\ ClosedFrom(ls, i + 1, st)
       ELSE ClosedFrom(ls, i + 1, ItemDone(st))

\* every group and environment of inp is closed, every command and marker
\* has its arguments, and breaks stand between the items of a line
WellClosed(inp) == ClosedFrom(TextLexemes(inp), 1, <<>>)

(* C17: for every input in which all groups and environments are closed    *)
(* and every fixed-arity command and script marker has received its        *)
(* arguments, when the tokenizer is exhausted the scope stack has exactly  *)
(* one frame and the environment stack holds exactly the document          *)
(* environment.                                                            *)
C17_ClosedInputEndsAtDepthOne ==
  (status \in {"parsing", "returned"} /\ ~hasMoreTokens(input, index)
     /\ WellClosed(input))
    => /\ Len(stateStacks) = 1
       /\ environmentStacks = <<documentEnvironment>>

----------------------------------------------------------------------------
\* The breaks of inp read off its characters, left to right: a sequence
\* with one entry per paragraph segment, the number of double backslashes
\* in that segment; two consecutive newlines start a new segment.
RECURSIVE BreakCountsFrom(_, _, _)
BreakCountsFrom(inp, i, acc) ==
  IF i > Len(inp) THEN acc
  ELSE IF i < Len(inp) /\ inp[i] = "\n" /\ inp[i + 1] = "\n"
    THEN BreakCountsFrom(inp, i + 2, Append(acc, 0))
  ELSE IF i < Len(inp) /\ inp[i] = "\\" /\ inp[i + 1] = "\\"
    THEN BreakCountsFrom(inp, i + 2, Append(Front(acc), Last(acc) + 1))
  ELSE BreakCountsFrom(inp, i + 1, acc)

BreakCounts(inp) == BreakCountsFrom(inp, 1, <<0>>)

\* inp holds no \begin and no \end
NoEnvironments(inp) ==
  LET L == Lexemes(inp)
  IN  \A i \in 1..Len(L) : L[i].tokenType \notin {Begin, End}

(* C18: for every input without environments on which parseLatex succeeds, *)
(* the document environment ends with 1 + P paragraphs, P the number of    *)
(* blank-line breaks of the input, and its i-th paragraph has 1 + L lines, *)
(* L the number of double-backslash breaks in the i-th segment.            *)
C18_BreaksCountParagraphsAndLines ==
  (status = "returned" /\ NoEnvironments(input)) =>
    LET ps == nodes[documentEnvironment].children
        bc == BreakCounts(input)
    IN  /\ Len(ps) = Len(bc)
        /\ \A i \in 1..Len(ps) :
             i <= Len(bc) => Len(nodes[ps[i]].children) = 1 + bc[i]

----------------------------------------------------------------------------
\* every node that exists, except node n, is what it was
OnlyChanges(n) == \A m \in NodeIds \ {n} : nodes'[m] = nodes[m]

(* C19: a line break (resp. paragraph break) read while an environment is  *)
(* on the environment stack creates exactly one node, a Line, appended to  *)
(* the current paragraph (resp. exactly two, a Paragraph holding one fresh *)
(* Line, appended to the current environment), replaces the whole scope    *)
(* stack by one frame without arity for the new Line, and leaves the       *)
(* environment stack and every node built before, but for the children of  *)
(* that paragraph (resp. environment), unchanged.                          *)
C19_BreakFrameEffect ==
  [][((ReadsLineBreak \/ ReadsParagraphBreak) /\ environmentStacks # <<>>) =>
       LET env == Last(environmentStacks)
           par == Last(nodes[env].children)
       IN
       /\ status' = "parsing"
       /\ environmentStacks' = environmentStacks
       /\ \E l \in 1..Len(nodes') :
            /\ NewLine(l)
            /\ stateStacks' = <<ParseState(l, Null)>>
            /\ IF ReadsParagraphBreak
                 THEN /\ Len(nodes') = Len(nodes) + 2
                      /\ \E p \in 1..Len(nodes') :
                           /\ p \notin NodeIds
                           /\ nodes'[p].nodeType = NodeType.Paragraph
                           /\ nodes'[p].children = <<l>>
                           /\ nodes'[env] =
                                [nodes[env] EXCEPT !.children = Append(@, p)]
                      /\ OnlyChanges(env)
                 ELSE /\ Len(nodes') = Len(nodes) + 1
                      /\ nodes'[par] =
                           [nodes[par] EXCEPT !.children = Append(@, l)]
                      /\ OnlyChanges(par)]_vars

\* (x followed by a blank line: the frame of the open group is gone with
\* the rest of the scope stack, the group node keeps its child, and the
\* document environment has a second Paragraph whose Line is the only frame
C19_Witness ==
  /\ tokenType = Paragraph
  /\ environmentStacks = <<documentEnvironment>>
  /\ Len(nodes[documentEnvironment].children) = 2
  /\ stateStacks =
       <<ParseState(nodes[Last(nodes[documentEnvironment].children)].children[1],
                    Null)>>
  /\ Len(nodes[firstLine].children) = 1
  /\ nodes[nodes[firstLine].children[1]].nodeType = NodeType.PGroup
  /\ Len(nodes[nodes[firstLine].children[1]].children) = 1

----------------------------------------------------------------------------
\* frame i of the scope stack is no longer on it after the step
FrameRemoved(i) == Len(stateStacks') < i \/ stateStacks'[i] # stateStacks[i]

\* the step processes the closing delimiter of the group of frame i, which
\* is the top frame
ClosesFrame(i) ==
  /\ i = Len(stateStacks)
  /\ status = "parsing"
  /\ hasMoreTokens(input, index)
  /\ Cur.tokenType = CloserOfGroup(nodes[stateStacks[i].node].nodeType)

(* C20: the frame of a group opened by (, [ or { leaves the scope stack     *)
(* only in a step that processes its matching closing delimiter: not in    *)
(* the arity check, not at an \end{name}, not at a line or paragraph       *)
(* break.                                                                  *)
C20_GroupFrameLeavesOnlyThroughItsCloser ==
  [][\A i \in GroupFrames : FrameRemoved(i) => ClosesFrame(i)]_vars

----------------------------------------------------------------------------
(* C21: whenever the scope stack is non-empty, an environment is open and  *)
(* the node of the bottom frame is the current Line, the last Line of the  *)
(* last Paragraph of the innermost open environment (lineNode), also while *)
(* an environment opened by \begin is open.                                *)
C21_BottomFrameIsCurrentLine ==
  stateStacks # <<>> =>
    /\ environmentStacks # <<>>
    /\ stateStacks[1].node = lineNode(context)


(* C21, amended: whenever the scope stack is non-empty the node of its     *)
(* bottom frame is a Line; for an input without \begin and \end it is the  *)
(* current Line (lineNode) of the document environment.  While an          *)
(* environment opened by \begin is open the bottom frame is still the Line *)
(* the enclosing scope was in, not lineNode.                               *)
C21_BottomFrameIsALine ==
  stateStacks # <<>> =>
    /\ nodes[stateStacks[1].node].nodeType = NodeType.Line
    /\ \/ /\ environmentStacks = <<documentEnvironment>>
          /\ stateStacks[1].node = lineNode(context)
       \/ ~NoEnvironments(input)

\* a double backslash, then ( : two frames, the bottom one for the second
\* Line of the document, which is the current Line
C21_Witness ==
  /\ NoEnvironments(input)
  /\ Len(stateStacks) = 2
  /\ stateStacks[1].node = lineNode(context)
  /\ stateStacks[1].node # firstLine
  /\ nodes[stateStacks[2].node].nodeType = NodeType.PGroup

----------------------------------------------------------------------------
\* the lexemes of inp, each with the cursor position it was read up to
\* (the 1-based position of its last character)
RECURSIVE SpansFrom(_, _, _)
SpansFrom(inp, idx, tt) ==
  IF ~hasMoreTokens(inp, idx) THEN <<>>
  ELSE LET lx == nextToken(inp, idx, tt)
       IN  <<[token |-> lx.token, tokenType |-> lx.tokenType, end |-> lx.index]>>
             \o SpansFrom(inp, lx.index, lx.tokenType)

Spans(inp) == SpansFrom(inp, 0, Unknown)

\* a run of characters of class starts at position a of inp
StartsRun(inp, a, class) ==
  /\ inp[a] \in class
  /\ a = 1 \/ inp[a - 1] \notin class

\* inp[a..b] (1-based) is a maximal run of characters of class
MaximalRun(inp, a, b, class) ==
  /\ a <= b
  /\ StartsRun(inp, a, class)
  /\ b = Len(inp) \/ inp[b + 1] \notin class
  /\ \A k \in a..b : inp[k] \in class

\* exactly one lexeme of inp is read up to a position of a..b: it is read
\* up to b, its text is inp[a..b] and its kind is tt
OneLexeme(inp, a, b, tt) ==
  LET S == Spans(inp)
      hit == {i \in 1..Len(S) : S[i].end \in a..b}
  IN  /\ Cardinality(hit) = 1
      /\ \A i \in hit :
           /\ S[i].end = b
           /\ S[i].token = Slice(inp, a - 1, b)
           /\ S[i].tokenType = tt

(* C22: every maximal run of digits of the input is read as exactly one    *)
(* Number lexeme whose text is the whole run, and every maximal run of     *)
(* letters not preceded by a backslash as exactly one Alphabet lexeme      *)
(* whose text is the whole run: no run is split, none is extended.         *)
C22_RunsAreOneLexeme ==
  index = 0 =>
    \A a \in 1..Len(input) :
      /\ StartsRun(input, a, Digits) =>
           \A b \in a..Len(input) :
             MaximalRun(input, a, b, Digits) => OneLexeme(input, a, b, Number)
      /\ (StartsRun(input, a, Letters) /\ (a = 1 \/ input[a - 1] # "\\")) =>
           \A b \in a..Len(input) :
             MaximalRun(input, a, b, Letters) => OneLexeme(input, a, b, Alphabet)

\* the lexeme 22 has been read from an input that holds the run 22 between
\* a letter and a letter or an end
C22_Witness ==
  /\ token = "22"
  /\ tokenType = Number
  /\ \E a \in 2..(Len(input) - 1) :
       /\ MaximalRun(input, a, a + 1, Digits)
       /\ input[a - 1] \in Letters
       /\ index = a + 1

----------------------------------------------------------------------------
\* inputs to compare against: every piece alone and followed by a space
ProbeInputs == {p \o s : p \in AnyPieces, s \in {<<>>, <<" ">>}}

\* the lexemes the parser reads from the probe inputs
ProbeLexemes ==
  UNION {{Lexemes(p)[i] : i \in 1..Len(Lexemes(p))} : p \in ProbeInputs}

(* C23: the kind of a lexeme is a function of its text alone: the lexeme   *)
(* the parser has just read has the kind of every lexeme of equal text     *)
(* read from any other input, whatever lexeme was produced before it.      *)
C23_KindIsFunctionOfText ==
  index > 0 =>
    \A l \in ProbeLexemes : l.token = token => l.tokenType = tokenType

----------------------------------------------------------------------------
\* the backslash words the enum TokenType has a member for
SymbolTableCommands ==
  {"\\pm", "\\mod", "\\times", "\\div", "\\equiv", "\\sqrt", "\\dfrac",
   "\\leq", "\\geq", "\\angle", "\\triangle", "\\circ", "\\sim", "\\simeq",
   "\\square", "\\bot", "\\cdot", "\\cdots", "\\alpha", "\\beta", "\\gamma",
   "\\delta", "\\epsilon", "\\zeta", "\\eta", "\\theta", "\\iota", "\\kappa",
   "\\lambda", "\\mu", "\\nu", "\\xi", "\\pi", "\\rho", "\\sigma", "\\tau",
   "\\upsilon", "\\phi", "\\chi", "\\psi", "\\omega", "\\sin", "\\cos",
   "\\tan", "\\log", "\\ell", Begin, End}

\* the end of the lexeme read before the i-th one, 0 for the first
PrevEnd(S, i) == IF i = 1 THEN 0 ELSE S[i - 1].end

\* the i-th lexeme of inp is a backslash at position a followed by the
\* letters up to its end
WordAt(inp, S, i, a) ==
  /\ a > PrevEnd(S, i) /\ a < S[i].end
  /\ inp[a] = "\\"
  /\ \A k \in (a + 1)..S[i].end : inp[k] \in Letters
  /\ \A k \in (PrevEnd(S, i) + 1)..(a - 1) : inp[k] \in {" ", "\n"}

(* C24: a backslash followed by one or more letters that is not a command  *)
(* of the symbol table is read as one lexeme whose text is the backslash   *)
(* and the letters and whose kind is Unknown.                              *)
C24_UnknownCommandIsUnknown ==
  index = 0 =>
    LET S == Spans(input) IN
    \A i \in 1..Len(S) : \A a \in 1..Len(input) :
      (WordAt(input, S, i, a)
         /\ Slice(input, a - 1, S[i].end) \notin SymbolTableCommands)
        => /\ S[i].token = Slice(input, a - 1, S[i].end)
           /\ S[i].tokenType = Unknown

----------------------------------------------------------------------------
\* the i-th lexeme of inp is a backslash at its end position that is
\* followed by no letter and no backslash, and is not the second half of a
\* double backslash
LoneBackslash(inp, S, i) ==
  LET b == S[i].end IN
  /\ b > PrevEnd(S, i)
  /\ inp[b] = "\\"
  /\ \A k \in (PrevEnd(S, i) + 1)..(b - 1) : inp[k] \in {" ", "\n"}

(* C25: a backslash that is the last character of the input, or that is    *)
(* followed by a character that is neither a letter nor a backslash, is    *)
(* read as a command lexeme with empty text whose kind is Unknown.         *)
C25_LoneBackslashIsEmptyUnknown ==
  index = 0 =>
    LET S == Spans(input) IN
    \A i \in 1..Len(S) :
      LoneBackslash(input, S, i) =>
        S[i].token = "" /\ S[i].tokenType = Unknown

----------------------------------------------------------------------------
\* the messages of the errors parseLatex throws itself
StructuralErrors ==
  {"Subscript without previous node", "Superscript without previous node",
   "Mismatched Parenthesis", "Mismatched Bracket", "Mismatched Brace",
   HeaderError, "Mismatched environment"}

(* C26: parseLatex fails only with one of its structural errors: a parse   *)
(* never aborts with an unguarded fault, such as reading the node of an    *)
(* undefined top frame or environment, also not when lexemes follow an     *)
(* \end{name}.                                                             *)
C26_OnlyStructuralErrors ==
  /\ status # "fault"
  /\ status = "error" => error \in StructuralErrors

----------------------------------------------------------------------------
(* C27: the value of a structural error identifies the offending lexeme    *)
(* and its position in the input.  The input ) fails on the lexeme ) read  *)
(* up to position 1 with the value 'Mismatched Parenthesis'; a value that  *)
(* identifies lexeme and position is then raised for no other position.    *)
C27_ErrorIdentifiesLexemeAndPosition ==
  (status = "error" /\ error = "Mismatched Parenthesis")
    => (token = ")" /\ index = 1)

----------------------------------------------------------------------------
\* the nodes node n refers to: its children and its two attachment slots
Kids(n) ==
  {nodes[n].children[i] : i \in 1..Len(nodes[n].children)}
    \cup ({nodes[n].subscript, nodes[n].superscript} \ {0})

\* S and everything reachable from it
RECURSIVE Reach(_, _)
Reach(seen, frontier) ==
  LET new == UNION {Kids(n) : n \in frontier} \ seen
  IN  IF new = {} THEN seen ELSE Reach(seen \cup new, new)

Closure(S) == Reach(S, S)

\* the nodes of the tree returned by parseLatex
Tree == Closure({rootNode})

OfType(n, t) == nodes[n].nodeType = t

ChildrenAre(n, t) ==
  /\ nodes[n].children # <<>>
  /\ \A i \in 1..Len(nodes[n].children) : OfType(nodes[n].children[i], t)

\* the nodes strictly below some Line of the tree
BelowLines ==
  Closure(UNION {Kids(l) : l \in {n \in Tree : OfType(n, NodeType.Line)}})

(* C28: in every state the Document has exactly one child, the implicit    *)
(* document Environment; every Environment of the tree has at least one    *)
(* child and only Paragraphs as children; every Paragraph has at least one *)
(* child and only Lines as children; Plain nodes, group nodes and          *)
(* Environments other than the document's occur only below a Line.         *)
C28_DocumentHierarchy ==
  LET B == BelowLines IN
  /\ Len(nodes[rootNode].children) = 1
  /\ OfType(nodes[rootNode].children[1], NodeType.Environment)
  /\ EnvName(nodes[rootNode].children[1]) = "document"
  /\ \A n \in Tree :
       /\ OfType(n, NodeType.Environment) => ChildrenAre(n, NodeType.Paragraph)
       /\ OfType(n, NodeType.Paragraph) => ChildrenAre(n, NodeType.Line)
       /\ (/\ nodes[n].nodeType \notin {NodeType.Document, NodeType.Paragraph,
                                        NodeType.Line}
           /\ n # documentEnvironment)
            => n \in B

\* an environment nested in a group, with a second Paragraph, returned:
\* Environment, Paragraph and Line nodes occur below a Line of the document
C28_Witness ==
  /\ status = "returned"
  /\ \E e \in Tree \ {documentEnvironment} :
       /\ OfType(e, NodeType.Environment)
       /\ Len(nodes[e].children) = 2
       /\ \E g \in Tree : nodes[g].nodeType \in GroupTypes /\ e \in Kids(g)

----------------------------------------------------------------------------
\* node n of heap ns was created for a lexeme _ or ^
MarkerIn(ns, n) == ns[n].token.tokenType \in Markers

(* C29: a node created for _ or ^ never appears in a children sequence,    *)
(* and a step that processes a marker puts the new node in the slot of the *)
(* previous sibling and leaves every children sequence unchanged.          *)
C29_MarkersLiveInSlots ==
  [][/\ \A n \in 1..Len(nodes') : \A i \in 1..Len(nodes'[n].children) :
          ~MarkerIn(nodes', nodes'[n].children[i])
     /\ ((Reads(Subscript) \/ Reads(Superscript)) /\ status' = "parsing") =>
          /\ Len(nodes') = Len(nodes) + 1
          /\ MarkerIn(nodes', Len(nodes'))
          /\ Len(nodes') \in {nodes'[lastNode].subscript,
                              nodes'[lastNode].superscript}
          /\ \A n \in NodeIds : nodes'[n].children = nodes[n].children]_vars

\* x^ : the marker is the node of the top frame, it sits in the
\* superscript slot of x, and the Line holds x alone
C29_Witness ==
  /\ tokenType = Superscript
  /\ Len(stateStacks) = 2
  /\ MarkerIn(nodes, stateStacks[2].node)
  /\ Len(nodes[firstLine].children) = 1
  /\ nodes[nodes[firstLine].children[1]].superscript = stateStacks[2].node
  /\ nodes[stateStacks[2].node].children = <<>>

----------------------------------------------------------------------------
\* the children positions and attachment slots of node p refer to pairwise
\* different nodes
DistinctKids(p) ==
  /\ \A i, j \in 1..Len(nodes[p].children) :
       nodes[p].children[i] = nodes[p].children[j] => i = j
  /\ \A i \in 1..Len(nodes[p].children) :
       nodes[p].children[i] \notin {nodes[p].subscript, nodes[p].superscript}
  /\ nodes[p].subscript # 0 => nodes[p].subscript # nodes[p].superscript

\* node n lies below itself
OwnAncestor(n) == n \in Closure(Kids(n))

(* C30: in every state the nodes reachable from the root form a tree: each *)
(* node is referred to by at most one children position or attachment      *)
(* slot, no node is below itself, and the node of every frame of the scope *)
(* stack and every entry of the environment stack is reachable from the    *)
(* root.                                                                   *)
C30_HeapIsATree ==
  LET T == Tree IN
  /\ \A p \in T : DistinctKids(p)
  /\ \A p, q \in T : p # q => Kids(p) \cap Kids(q) = {}
  /\ \A p \in T : ~OwnAncestor(p)
  /\ \A i \in 1..Len(stateStacks) : stateStacks[i].node \in T
  /\ \A i \in 1..Len(environmentStacks) : environmentStacks[i] \in T

\* x^2^ returned: the marker of the first ^ was replaced in the slot of x
\* and is no longer part of the tree, which is a tree all the same
C30_Witness ==
  /\ status \in {"parsing", "returned"}
  /\ \E m \in NodeIds \ Tree : MarkerIn(nodes, m)
  /\ \E b \in Tree : nodes[b].superscript # 0
  /\ stateStacks # <<>>

----------------------------------------------------------------------------
\* the kinds the loop has a case of its own for: script markers, \begin and
\* \end, delimiters, \sqrt and \dfrac, line and paragraph breaks
OwnCase ==
  Markers \cup {Begin, End} \cup Openers \cup Closers
    \cup {SquareRoot, Dfrac} \cup {DoubleBackslash, Newline, Paragraph}

\* the loop is about to run its body, with a top frame, on a lexeme of a
\* kind without a case of its own
ReadsOther ==
  /\ status = "parsing"
  /\ hasMoreTokens(input, index)
  /\ stateStacks # <<>>
  /\ Cur.tokenType \notin OwnCase

(* C31: a lexeme that is none of a script marker, \begin/\end, a delimiter, *)
(* \sqrt/\dfrac or a line/paragraph break, read with a frame on top of the  *)
(* scope stack, creates exactly one node, a Plain carrying that lexeme, and *)
(* appends it at the end of the children of the top frame's node; no other  *)
(* node changes, no frame is pushed, the scope stack is unchanged but for   *)
(* the top frame leaving it when its arity is then met, and the environment *)
(* stack is unchanged.                                                      *)
C31_OtherLexemeAppendsPlain ==
  [][ReadsOther =>
       LET t == top(context).node
           n == Len(nodes) + 1
       IN  /\ status' = "parsing"
           /\ Len(nodes') = n
           /\ nodes'[n] = MkNode(NodeType.Plain, <<>>, currentToken(Cur))
           /\ nodes'[t] = [nodes[t] EXCEPT !.children = Append(@, n)]
           /\ OnlyChanges(t)
           /\ stateStacks' =
                IF top(context).numOfParams = Len(nodes'[t].children)
                  THEN Front(stateStacks)
                  ELSE stateStacks
           /\ environmentStacks' = environmentStacks]_vars

\* the second argument of a \dfrac has just been appended as a Plain: the
\* frame of the \dfrac has left the scope stack
C31_Witness ==
  /\ status = "parsing"
  /\ tokenType = Number
  /\ token # ""
  /\ Len(stateStacks) = 1
  /\ \E d \in NodeIds :
       /\ IsCommand(d, Dfrac)
       /\ ChildCount(d) = 2
       /\ IsPlain(nodes[d].children[2], token)
       /\ nodes[stateStacks[1].node].children # <<>>
       /\ Last(nodes[stateStacks[1].node].children) = d

----------------------------------------------------------------------------
\* the closing tag of the implicit document environment
EndDocumentPiece ==
  <<"\\", "e", "n", "d", "{", "d", "o", "c", "u", "m", "e", "n", "t", "}">>

\* the inputs of the runs followed to their end: any pieces, line breaks and
\* the whitespace the lexer skips, and any piece read after the document
\* environment was closed
LiveInputs ==
  Concats(AnyPieces, MaxAny) \cup Concats(BreakPieces, MaxBreak)
    \cup {EndDocumentPiece \o p : p \in AnyPieces}

LiveInit ==
  /\ input \in LiveInputs
  /\ index = 0
  /\ token = ""
  /\ tokenType = Unknown
  /\ nodes = createDocumentNode
  /\ stateStacks = NewParseContext(createDocumentNode).stateStacks
  /\ environmentStacks = NewParseContext(createDocumentNode).environmentStacks
  /\ status = "parsing"
  /\ error = ""
  /\ results = <<>>
  /\ RenderInit

\* parseLatex runs to completion without yielding: the loop of lines
\* 101-235 always takes its next step
LiveSpec == LiveInit /\ [][Next]_vars /\ WF_vars(Next)

\* parseLatex has returned or thrown
Terminated == status \in {"returned", "error", "fault"}

\* a nextToken call made anywhere before the end of inp moves the cursor
\* forward, and not past the end
EveryCallAdvances(inp) ==
  \A i \in 0..(Len(inp) - 1) :
    /\ nextToken(inp, i, Unknown).index > i
    /\ nextToken(inp, i, Unknown).index <= Len(inp)

(* C32: parseLatex terminates on every input, by returning or by throwing. *)
(* Every nextToken call made before the end of the input advances the      *)
(* cursor by at least one character and not past the end; in every step    *)
(* the cursor does not move backwards and stays within the input, and a    *)
(* step of the loop moves it at least past the lexeme it reads; the input  *)
(* has at most as many lexemes as characters.                              *)
C32_ParseTerminates ==
  /\ [][/\ index = 0 =>
             /\ EveryCallAdvances(input)
             /\ Len(Lexemes(input)) <= Len(input)
        /\ index' >= index
        /\ index' <= Len(input)
        /\ (status = "parsing" /\ hasMoreTokens(input, index)) =>
             /\ Cur.index > index
             /\ index' >= Cur.index]_vars
  /\ <>Terminated

\* an input of five lexemes and more characters has been read to its end,
\* one of its lexemes a \begin{x} header read within one step, and
\* parseLatex has returned
C32_Witness ==
  /\ status = "returned"
  /\ index = Len(input)
  /\ Len(Lexemes(input)) >= 5
  /\ Len(Lexemes(input)) < Len(input)
  /\ Len(environmentStacks) = 2

----------------------------------------------------------------------------
(* Several calls of parseLatex, one after the other.  parseLatex is        *)
(* synchronous, so a call starts only when the one before has returned or  *)
(* thrown; `results` keeps what the earlier calls gave.                    *)

MaxCalls == 3

\* inputs that return, that throw and that fault, and that between them
\* make every case of the loop run
SessionInputs ==
  { <<"x", "^", "{", "2", "}", "_", "x">>,
    <<"(", "\\", "s", "q", "r", "t", "[", "2", "]", ")">>,
    <<"\\", "d", "f", "r", "a", "c", "2", "\\", "\\", "x", "\n", "\n", "x">>,
    <<"\\", "b", "e", "g", "i", "n", "{", "x", "}", "x",
      "\\", "e", "n", "d", "{", "x", "}">>,
    EndDocumentPiece \o <<"x">>,
    <<")">>,
    <<" ">>,
    <<"x", " ">> }

SessionInit ==
  /\ input \in SessionInputs
  /\ index = 0
  /\ token = ""
  /\ tokenType = Unknown
  /\ nodes = createDocumentNode
  /\ stateStacks = NewParseContext(createDocumentNode).stateStacks
  /\ environmentStacks = NewParseContext(createDocumentNode).environmentStacks
  /\ status = "parsing"
  /\ error = ""
  /\ results = <<>>
  /\ RenderInit

\* what the call that has just ended gave: the tree or the error
Outcome ==
  [input |-> input, status |-> status, error |-> error, nodes |-> nodes]

\* a further call whose Lexer is the one of the call before, given the new
\* input and a cursor of 0, its token and tokenType left as they were
Call_ReusesLexer ==
  /\ status # "parsing"
  /\ Len(results) < MaxCalls - 1
  /\ results' = Append(results, Outcome)
  /\ UNCHANGED renderVars
  /\ input' \in SessionInputs
  /\ index' = 0
  /\ UNCHANGED <<token, tokenType>>
  /\ nodes' = createDocumentNode
  /\ stateStacks' = NewParseContext(createDocumentNode).stateStacks
  /\ environmentStacks' = NewParseContext(createDocumentNode).environmentStacks
  /\ status' = "parsing"
  /\ error' = ""

\* a further call parseLatex(latex), lines 97-100: a new Lexer (lexer.ts
\* 33-38), a new root node, a new ParseContext
Call ==
  /\ status # "parsing"
  /\ Len(results) < MaxCalls - 1
  /\ results' = Append(results, Outcome)
  /\ UNCHANGED renderVars
  /\ input' \in SessionInputs
  /\ index' = 0
  /\ token' = ""
  /\ tokenType' = Unknown
  /\ nodes' = createDocumentNode
  /\ stateStacks' = NewParseContext(createDocumentNode).stateStacks
  /\ environmentStacks' = NewParseContext(createDocumentNode).environmentStacks
  /\ status' = "parsing"
  /\ error' = ""

SessionNext == Next \/ Call

SessionSpec == SessionInit /\ [][SessionNext]_vars

(* C33: when a call of parseLatex has returned or thrown, every earlier    *)
(* call of the session made on the same input ended the same way: both     *)
(* returned, with equal trees, or both threw, with the same error,         *)
(* whatever calls, successful or failed, were made before or between them. *)
C33_SameInputSameOutcome ==
  Terminated =>
    \A k \in 1..Len(results) :
      results[k].input = input =>
        /\ results[k].status = status
        /\ results[k].error = error
        /\ status = "returned" => results[k].nodes = nodes

\* the third call has returned the tree of the first, made on the same
\* input, after a call on another input that threw
C33_Witness ==
  /\ status = "returned"
  /\ Len(results) = 2
  /\ results[1].input = input
  /\ results[1].nodes = nodes
  /\ Len(nodes) > 4
  /\ results[2].input # input
  /\ results[2].status = "error"

----------------------------------------------------------------------------
\* the loop is about to accept the \end{name} of the innermost environment,
\* one that a \begin opened
ReadsMatchingEnd ==
  /\ ReadsEndTag
  /\ Len(environmentStacks) > 1
  /\ AfterTag[2].token = EnvName(Last(environmentStacks))

(* C34: a step that accepts \end{name} leaves on top of the scope stack    *)
(* the frame that was on top when the matching \begin{name} was read, the  *)
(* frame whose node has the Environment as its last child, with every      *)
(* frame below it in place (that frame itself has left when the            *)
(* Environment was the last argument of its arity), whatever the body of   *)
(* the environment held.                                                   *)
C34_EndRestoresEnclosingScope ==
  [][ReadsMatchingEnd =>
       LET env == Last(environmentStacks)
       IN  \E k \in 1..Len(stateStacks) :
             /\ nodes[stateStacks[k].node].children # <<>>
             /\ Last(nodes[stateStacks[k].node].children) = env
             /\ \/ stateStacks' = SubSeq(stateStacks, 1, k)
                \/ /\ Full(stateStacks[k])
                   /\ stateStacks' = SubSeq(stateStacks, 1, k - 1)]_vars

----------------------------------------------------------------------------
\* text is what some non-empty stretch of inp at or after the cursor idx
\* (0-based) reads
InRest(text, inp, idx) ==
  \E a \in idx..(Len(inp) - 1) : \E b \in (a + 1)..Len(inp) :
    Slice(inp, a, b) = text

(* C35: whenever hasMoreTokens() is true the lexeme the following          *)
(* nextToken() yields has a non-empty text that occurs in the rest of the  *)
(* input; and no Plain or group node of a returned tree carries a lexeme   *)
(* with the empty text.                                                    *)
C35_LexemesAreInTheInput ==
  /\ (status = "parsing" /\ hasMoreTokens(input, index)) =>
       /\ Cur.token # ""
       /\ InRest(Cur.token, input, index)
  /\ status = "returned" =>
       \A n \in Tree :
         nodes[n].nodeType \in {NodeType.Plain} \cup GroupTypes =>
           nodes[n].token.token # ""

----------------------------------------------------------------------------
(* Rendering: the renderers created and the options each of them holds.    *)
(* Drawing on the canvas is left out.                                      *)

MaxRenderers == 3

parserVars == <<input, index, token, tokenType, nodes, stateStacks,
                environmentStacks, status, error, results>>

\* options a caller passes: none, some, and another canvas size
NoOptions == [k \in {} |-> 0]

PartialOptions ==
  { NoOptions, [fontSize |-> 20], [fillBackground |-> FALSE],
    [fontSize |-> 20, fillBackground |-> FALSE],
    [width |-> 200, height |-> 100] }

\* LatexRenderer.create(opts), ast.ts 331-336, and the constructor: the
\* options are Object.assign(DefaultRenderOptions, opts), which writes opts
\* into the DefaultRenderOptions object and returns that object; the
\* renderer keeps the reference and copies fontSize into its render state
create(opts) ==
  /\ Len(renderers) < MaxRenderers
  /\ optionObjects' = [optionObjects EXCEPT ![DefaultsId] = Assign(@, opts)]
  /\ renderers' =
       Append(renderers,
              [options |-> DefaultsId, given |-> opts,
               fontSize |-> Assign(optionObjects[DefaultsId], opts).fontSize])
  /\ UNCHANGED parserVars

\* renderLatex(latex, options), ast.ts 790-798; the tree parseLatex returns
\* has no part in the options
renderLatex == \E opts \in PartialOptions : create(opts)

\* renderWithNewCanvas as the renderer r calls it for a line, a cases body,
\* a fraction and a square root (ast.ts 630, 661, 736, 742, 753)
renderWithNewCanvas ==
  \E r \in 1..Len(renderers) :
    create([fontSize |-> renderers[r].fontSize, fillBackground |-> FALSE])

RenderNext == renderLatex \/ renderWithNewCanvas

\* nothing rendered yet, and the parser as a call on the empty input
\* starts it
RenderStart ==
  /\ input = <<>>
  /\ index = 0
  /\ token = ""
  /\ tokenType = Unknown
  /\ nodes = createDocumentNode
  /\ stateStacks = NewParseContext(createDocumentNode).stateStacks
  /\ environmentStacks = NewParseContext(createDocumentNode).environmentStacks
  /\ status = "parsing"
  /\ error = ""
  /\ results = <<>>
  /\ RenderInit

RenderSpec == RenderStart /\ [][RenderNext]_vars

(* C36: render options do not leak between renders: DefaultRenderOptions   *)
(* keeps the documented defaults whatever renderers were created, and the  *)
(* options of every renderer are the documented defaults overridden by the *)
(* options it was created with, also after later and nested renders.       *)
C36_OptionsDoNotLeak ==
  /\ optionObjects[DefaultsId] = DefaultRenderOptions
  /\ \A r \in 1..Len(renderers) :
       optionObjects[renderers[r].options] =
         Assign(DefaultRenderOptions, renderers[r].given)

----------------------------------------------------------------------------
(* The parser without environments (src/unnamed/part_000).  Its cases for  *)
(* scripts, groups and commands are those of parser.ts; it has no          *)
(* environment stack, no Begin and End cases, and its own createNewLine    *)
(* and createNewParagraph.                                                 *)

\* the document the constructor of part_000 (line 21) walks: the Line is
\* rootNode.children[0].children[0]
Part000_createDocumentNode ==
  <<MkNode(NodeType.Document, <<2>>, NoToken),
    MkNode(NodeType.Paragraph, <<3>>, NoToken),
    MkNode(NodeType.Line, <<>>, NoToken)>>

\* new ParseContext(rootNode), part_000 lines 20-23
Part000_NewParseContext(ns) ==
  LET ln == ns[ns[rootNode].children[1]].children[1]
  IN  Ctx(ns, <<ParseState(ln, Null)>>, <<>>)

\* createNewLine, part_000 lines 25-29: the Line goes to
\* rootNode.children[0]
Part000_createNewLine(c) ==
  LET node == NewId(c)
      c1 == createNode(c, NodeType.Line, <<>>, NoToken)
      c2 == PushChild(c1, c.nodes[rootNode].children[1], node)
  IN  [c2 EXCEPT !.stateStacks = <<ParseState(node, Null)>>]

\* createNewParagraph, part_000 lines 31-35
Part000_createNewParagraph(c) ==
  LET line == NewId(c)
      c1 == createNode(c, NodeType.Line, <<>>, NoToken)
      c2 == createNode(c1, NodeType.Paragraph, <<line>>, NoToken)
      c3 == PushChild(c2, rootNode, line + 1)
  IN  [c3 EXCEPT !.stateStacks = <<ParseState(line, Null)>>]

\* case DoubleBackslash / Newline, part_000 lines 137-142
Part000_ParseNewLine ==
  /\ \/ Reads(DoubleBackslash)
     \/ Reads(Newline)
  /\ Advance(Cur)
  /\ Continue(Part000_createNewLine(context))

\* case Paragraph, part_000 lines 143-146
Part000_ParseParagraph ==
  /\ Reads(Paragraph)
  /\ Advance(Cur)
  /\ Continue(Part000_createNewParagraph(context))

\* the kinds part_000 has a case for
Part000_Dispatched == Dispatched \ {Begin, End}

\* default, part_000 lines 147-151: \begin and \end are lexemes like any
\* other
Part000_ParseDefault ==
  /\ status = "parsing"
  /\ hasMoreTokens(input, index)
  /\ Cur.tokenType \notin Part000_Dispatched
  /\ Advance(Cur)
  /\ LET node == NewId(context)
         c1 == createPlainNode(context, currentToken(Cur))
     IN  Continue(addChild(c1, node))

Part000_Inputs ==
  Concats(AnyPieces, MaxAny) \cup Concats(BreakPieces, MaxBreak)

Part000_Init ==
  /\ input \in Part000_Inputs
  /\ index = 0
  /\ token = ""
  /\ tokenType = Unknown
  /\ nodes = Part000_createDocumentNode
  /\ stateStacks = Part000_NewParseContext(Part000_createDocumentNode).stateStacks
  /\ environmentStacks = <<>>
  /\ status = "parsing"
  /\ error = ""
  /\ results = <<>>
  /\ RenderInit

Part000_Next ==
  \/ ParseSubscript
  \/ ParseSuperscript
  \/ ParseLParen
  \/ ParseRParen
  \/ ParseLBracket
  \/ ParseRBracket
  \/ ParseLBrace
  \/ ParseRBrace
  \/ ParseSquareRoot
  \/ ParseDfrac
  \/ Part000_ParseNewLine
  \/ Part000_ParseParagraph
  \/ Part000_ParseDefault
  \/ Return

Part000_Spec == Part000_Init /\ [][Part000_Next]_vars

\* the Paragraph created last
Part000_CurrentParagraph(ns) == Last(ns[rootNode].children)

(* C37: in the parser without environments, a line break read after one or *)
(* more paragraph breaks appends the new Line, to which the scope stack is *)
(* reset and which therefore takes the lexemes that follow, to the         *)
(* Paragraph created last, not to the first Paragraph of the document.     *)
C37_LineBreakExtendsCurrentParagraph ==
  [][(/\ Reads(DoubleBackslash)
      /\ Len(nodes[rootNode].children) > 1)
       => /\ stateStacks' = <<ParseState(NewId(context), Null)>>
          /\ nodes'[NewId(context)].nodeType = NodeType.Line
          /\ Last(nodes'[Part000_CurrentParagraph(nodes')].children)
               = NewId(context)
          /\ nodes'[nodes[rootNode].children[1]]
               = nodes[nodes[rootNode].children[1]]]_vars

====
